---------------------------- MODULE Spec2Model ----------------------------
(***************************************************************************)
(* A model of src/src/api.py, class EcostressCloudAPI: the date-range and  *)
(* bounding-box selection of ECOSTRESS cloud files and their download.     *)
(*                                                                         *)
(* Text is a sequence of one-character strings.  A Python value that may   *)
(* be None is a record with a kind field: Str(s), PyNone, a datetime, or   *)
(* a raised exception.                                                     *)
(***************************************************************************)
EXTENDS Integers, Sequences, FiniteSets, TLC

(***************************************************************************)
(* Python values                                                           *)
(***************************************************************************)
PyNone == [kind |-> "None"]

Str(s) == [kind |-> "str", s |-> s]

Raise(exc) == [kind |-> "raise", exc |-> exc]

Datetime(y, mo, d, h, mi, s) == [kind |-> "datetime", dt |-> <<y, mo, d, h, mi, s>>]

(***************************************************************************)
(* Characters and decimal text                                             *)
(***************************************************************************)
DigitChars == <<"0", "1", "2", "3", "4", "5", "6", "7", "8", "9">>

\* \d of the pattern (ASCII digits).
IsDigit(c) == \E i \in 1..10 : DigitChars[i] = c

DigitVal(c) == (CHOOSE i \in 1..10 : DigitChars[i] = c) - 1

\* int(text) for a text of decimal digits.
RECURSIVE ToInt(_)
ToInt(s) ==
    IF s = <<>> THEN 0
    ELSE 10 * ToInt(SubSeq(s, 1, Len(s) - 1)) + DigitVal(s[Len(s)])

\* The last w decimal digits of n, zero padded: strftime's %Y (w = 4), %m and %d (w = 2).
RECURSIVE Pad(_, _)
Pad(n, w) ==
    IF w = 0 THEN <<>>
    ELSE Pad(n \div 10, w - 1) \o <<DigitChars[(n % 10) + 1]>>

(***************************************************************************)
(* The file name pattern of __init__ (self._file_re)                       *)
(***************************************************************************)
Lit(s) == [i \in 1..Len(s) |-> [lit |-> s[i], group |-> ""]]

\* (?P<group>\d{n})
Group(group, n) == [i \in 1..n |-> [lit |-> "", group |-> group]]

\* The pattern up to its final $, one item per character it consumes.
_file_re ==
    Lit(<<"E", "C", "O", "S", "T", "R", "E", "S", "S", "_", "L", "2", "_",
          "C", "L", "O", "U", "D", "_">>)
    \o Group("orbit", 5) \o Lit(<<"_">>)
    \o Group("scene_id", 3) \o Lit(<<"_">>)
    \o Group("year", 4) \o Group("month", 2) \o Group("day", 2)
    \o Lit(<<"T">>)
    \o Group("hour", 2) \o Group("minute", 2) \o Group("second", 2)
    \o Lit(<<"_">>)
    \o Group("build_id", 4) \o Lit(<<"_">>)
    \o Group("version", 2)
    \o Lit(<<".", "h", "5">>)

ItemMatches(item, c) ==
    IF item.group = "" THEN c = item.lit ELSE IsDigit(c)

\* $ of Python's re without MULTILINE: the end of the text, or just before a
\* newline that ends the text.
DollarAt(s, n) == Len(s) = n \/ (Len(s) = n + 1 /\ s[n + 1] = "\n")

\* re.match(self._file_re, s) for a text s: anchored at the start of s.
ReMatch(s) ==
    /\ Len(s) >= Len(_file_re)
    /\ \A i \in 1..Len(_file_re) : ItemMatches(_file_re[i], s[i])
    /\ DollarAt(s, Len(_file_re))

\* match.groupdict()[group]
GroupText(s, group) ==
    LET idx == {i \in 1..Len(_file_re) : _file_re[i].group = group}
        lo == CHOOSE i \in idx : \A j \in idx : i <= j
    IN SubSeq(s, lo, lo + Cardinality(idx) - 1)

(***************************************************************************)
(* datetime                                                                *)
(***************************************************************************)
IsLeap(y) == y % 4 = 0 /\ (y % 100 # 0 \/ y % 400 = 0)

DaysInMonth(y, m) ==
    IF m = 2 THEN (IF IsLeap(y) THEN 29 ELSE 28)
    ELSE IF m \in {4, 6, 9, 11} THEN 30 ELSE 31

\* The fields datetime(...) accepts; any other raises ValueError.
ValidDatetime(y, mo, d, h, mi, s) ==
    /\ y \in 1..9999
    /\ mo \in 1..12
    /\ d \in 1..DaysInMonth(y, mo)
    /\ h \in 0..23
    /\ mi \in 0..59
    /\ s \in 0..59

\* a <= b on datetimes: the fields compared in order, year first.
RECURSIVE TupleLE(_, _)
TupleLE(a, b) ==
    IF a = <<>> THEN TRUE
    ELSE IF Head(a) # Head(b) THEN Head(a) < Head(b)
    ELSE TupleLE(Tail(a), Tail(b))

DtLE(a, b) == TupleLE(a.dt, b.dt)

\* a + timedelta(days=1)
AddDay(a) ==
    LET y == a.dt[1]
        mo == a.dt[2]
        d == a.dt[3]
    IN IF d < DaysInMonth(y, mo) THEN Datetime(y, mo, d + 1, a.dt[4], a.dt[5], a.dt[6])
       ELSE IF mo < 12 THEN Datetime(y, mo + 1, 1, a.dt[4], a.dt[5], a.dt[6])
       ELSE Datetime(y + 1, 1, 1, a.dt[4], a.dt[5], a.dt[6])

(***************************************************************************)
(* _parse_datetime_from_file_name                                          *)
(***************************************************************************)
_parse_datetime_from_file_name(file_name) ==
    IF file_name.kind # "str" THEN Raise("TypeError")
    ELSE IF ReMatch(file_name.s) THEN
        LET y == ToInt(GroupText(file_name.s, "year"))
            mo == ToInt(GroupText(file_name.s, "month"))
            d == ToInt(GroupText(file_name.s, "day"))
            h == ToInt(GroupText(file_name.s, "hour"))
            mi == ToInt(GroupText(file_name.s, "minute"))
            s == ToInt(GroupText(file_name.s, "second"))
        IN IF ValidDatetime(y, mo, d, h, mi, s) THEN Datetime(y, mo, d, h, mi, s)
           ELSE Raise("ValueError")
    ELSE PyNone

(***************************************************************************)
(* _create_day_urls                                                        *)
(***************************************************************************)
_BASE_CLOUD_URL ==
    <<"h", "t", "t", "p", "s", ":", "/", "/", "e", "4", "f", "t", "l", "0", "1",
      ".", "c", "r", ".", "u", "s", "g", "s", ".", "g", "o", "v", "/",
      "E", "C", "O", "S", "T", "R", "E", "S", "S", "/",
      "E", "C", "O", "2", "C", "L", "D", ".", "0", "0", "1", "/">>

\* date.strftime('%Y.%m.%d')
Strftime(a) == Pad(a.dt[1], 4) \o <<".">> \o Pad(a.dt[2], 2) \o <<".">> \o Pad(a.dt[3], 2)

\* The characters urlsplit takes for a scheme (its letters).
SchemeChars ==
    {"a", "b", "c", "d", "e", "f", "g", "h", "i", "j", "k", "l", "m", "n", "o", "p",
     "q", "r", "s", "t", "u", "v", "w", "x", "y", "z",
     "A", "B", "C", "D", "E", "F", "G", "H", "I", "J", "K", "L", "M", "N", "O", "P",
     "Q", "R", "S", "T", "U", "V", "W", "X", "Y", "Z"}

\* urlsplit finds a scheme: letters up to the first ":".
HasScheme(u) ==
    \E i \in 2..Len(u) : u[i] = ":" /\ \A j \in 1..(i - 1) : u[j] \in SchemeChars

\* The scheme and host of an absolute URL: up to, not including, the first "/" of its path.
Origin(base) ==
    LET slashes == {i \in 1..Len(base) : base[i] = "/" /\ i > 1 /\ base[i - 1] # "/"
                                         /\ (i = Len(base) \/ base[i + 1] # "/")}
    IN IF slashes = {} THEN base
       ELSE SubSeq(base, 1, (CHOOSE i \in slashes : \A j \in slashes : i <= j) - 1)

\* The base up to and including its last "/".
DirOf(base) ==
    LET slashes == {i \in 1..Len(base) : base[i] = "/"}
    IN IF slashes = {} THEN <<>>
       ELSE SubSeq(base, 1, CHOOSE i \in slashes : \A j \in slashes : j <= i)

\* urlsplit drops tab, carriage return and newline from a URL.
StripUnsafe(u) == SelectSeq(u, LAMBDA c : c \notin {"\t", "\r", "\n"})

\* urllib.parse.urljoin(base, url) for an absolute base and a url without dot
\* segments; url is a Python value, and a None or empty url gives the base.
UrlJoin(base, url) ==
    IF url.kind # "str" \/ url.s = <<>> THEN base
    ELSE LET u == StripUnsafe(url.s)
         IN IF HasScheme(u) THEN u
            ELSE IF u # <<>> /\ u[1] = "/" THEN Origin(base) \o u
            ELSE DirOf(base) \o u

_create_day_url(start_date) ==
    UrlJoin(_BASE_CLOUD_URL, Str(Strftime(start_date) \o <<"/">>))

\* The while loop of _create_day_urls: one URL per iteration, a day added each time.
RECURSIVE _create_day_urls(_, _)
_create_day_urls(start_date, end_date) ==
    IF DtLE(start_date, end_date)
    THEN <<_create_day_url(start_date)>> \o _create_day_urls(AddDay(start_date), end_date)
    ELSE <<>>

(***************************************************************************)
(* Paths and the file system                                               *)
(***************************************************************************)
\* os.path.basename
Basename(p) ==
    LET slashes == {i \in 1..Len(p) : p[i] = "/"}
    IN IF slashes = {} THEN p
       ELSE SubSeq(p, (CHOOSE i \in slashes : \A j \in slashes : j <= i) + 1, Len(p))

\* os.path.join(a, b)
PathJoin(a, b) ==
    IF b # <<>> /\ b[1] = "/" THEN b
    ELSE IF a = <<>> \/ a[Len(a)] = "/" THEN a \o b
    ELSE a \o <<"/">> \o b

\* os.path.exists on a file system: a function from the paths of its files to their content.
PathExists(files, p) == p \in DOMAIN files

\* PROJ_DIR/xml_files, relative to PROJ_DIR.
_XML_DIR == <<"x", "m", "l", "_", "f", "i", "l", "e", "s">>

\* The content of a file: the bytes written to it, or a metadata document.
Bytes(data) == [kind |-> "bytes", data |-> data]

\* A metadata document with a BoundingRectangle; a coordinate is in microdegrees.
XmlDoc(west, north, east, south) ==
    [kind |-> "xml", West |-> west, North |-> north, East |-> east, South |-> south]

\* A document ET.fromstring parses that holds no BoundingRectangle.
XmlNoRect == [kind |-> "xml_no_rect"]

(***************************************************************************)
(* Polygon and intersects, for the rectangles the class builds             *)
(***************************************************************************)
Min(a, b) == IF a <= b THEN a ELSE b

Max(a, b) == IF a <= b THEN b ELSE a

\* Polygon([(x1, y1), (x2, y1), (x2, y2), (x1, y2)]): the region its four corners
\* span, whatever the order of x1, x2 and of y1, y2.
Polygon(x1, y1, x2, y2) ==
    [kind |-> "polygon", xlo |-> Min(x1, x2), xhi |-> Max(x1, x2), ylo |-> Min(y1, y2), yhi |-> Max(y1, y2)]

\* a.intersects(b): the closed regions share a point.
Intersects(a, b) ==
    /\ a.xlo <= b.xhi /\ b.xlo <= a.xhi
    /\ a.ylo <= b.yhi /\ b.ylo <= a.yhi

Bool(b) == [kind |-> "bool", b |-> b]

(***************************************************************************)
(* _parse_bbox_from_xml and _overlaps_bbox                                 *)
(***************************************************************************)
\* The parameters of download() after self.
download_params == <<"start_date", "end_date", "bbox", "output_dir">>

\* self.download(*args): Python binds the arguments to the parameters before the
\* body runs, and raises TypeError when a parameter is left without one.
CallDownload(args) ==
    IF Len(args) # Len(download_params) THEN Raise("TypeError")
    ELSE Raise("RecursiveDownload")

\* ET.fromstring(...) and the four float(...find(...).text) of a file's content.
ParseBoundingRect(content) ==
    IF content.kind = "xml"
    THEN Polygon(content.West, content.North, content.East, content.South)
    ELSE IF content.kind = "xml_no_rect" THEN Raise("AttributeError")
    ELSE Raise("ParseError")

XmlPath(xml_url) == PathJoin(_XML_DIR, Basename(xml_url))

\* The Polygon returned, or the exception raised.  The call reads the file system
\* and never writes it: the only writer it reaches is the call of line 94.
_parse_bbox_from_xml(files, xml_url) ==
    LET file_path == XmlPath(xml_url)
    IN IF ~PathExists(files, file_path)
       THEN CallDownload(<< <<xml_url, file_path>> >>)
       ELSE ParseBoundingRect(files[file_path])

_overlaps_bbox(files, target_bbox, xml_url) ==
    LET target == Polygon(target_bbox[1], target_bbox[4], target_bbox[3], target_bbox[2])
        file_bbox == _parse_bbox_from_xml(files, xml_url)
    IN IF file_bbox.kind = "raise" THEN file_bbox
       ELSE Bool(Intersects(file_bbox, target))

XmlSuffix == <<".", "x", "m", "l">>

\* Selects with a metadata failure caught and the candidate passed over.
SelectsSkipsBadMetadata(files, start, end, target_bbox, day_url, file_url) ==
    LET link == UrlJoin(day_url, file_url)
        file_date == _parse_datetime_from_file_name(file_url)
        overlaps == _overlaps_bbox(files, target_bbox, link \o XmlSuffix)
    IN IF file_date.kind = "raise" THEN file_date
       ELSE IF file_date.kind = "None" THEN Bool(FALSE)
       ELSE IF ~(DtLE(start, file_date) /\ DtLE(file_date, end)) THEN Bool(FALSE)
       ELSE IF overlaps.kind = "raise" THEN Bool(FALSE)
       ELSE overlaps

\* SpatialCall with the range test left out: every dated candidate is evaluated.
SpatialCallAnyDate(start, end, day_url, file_url) ==
    LET link == UrlJoin(day_url, file_url)
        file_date == _parse_datetime_from_file_name(file_url)
    IN IF file_date.kind = "raise" THEN PyNone
       ELSE IF file_date.kind = "None" THEN PyNone
       ELSE Str(link \o XmlSuffix)

\* The first two operands of line 142 and what they leave to the third: the
\* xml_url _overlaps_bbox is called with, None when "and" stops before the call
\* (or the parse of line 141 raised).
SpatialCall(start, end, day_url, file_url) ==
    LET link == UrlJoin(day_url, file_url)
        file_date == _parse_datetime_from_file_name(file_url)
    IN IF file_date.kind = "raise" THEN PyNone
       ELSE IF file_date.kind = "None" THEN PyNone
       ELSE IF ~(DtLE(start, file_date) /\ DtLE(file_date, end)) THEN PyNone
       ELSE Str(link \o XmlSuffix)

\* The condition of line 142, evaluated left to right with "and" short-circuiting:
\* Bool(b), or the exception one of its calls raises.
Selects(files, start, end, target_bbox, day_url, file_url) ==
    LET file_date == _parse_datetime_from_file_name(file_url)
        call == SpatialCall(start, end, day_url, file_url)
    IN IF file_date.kind = "raise" THEN file_date
       ELSE IF call = PyNone THEN Bool(FALSE)
       ELSE _overlaps_bbox(files, target_bbox, call.s)

\* file_requests of line 145.
FileRequest(link, dir) == [link |-> link, dest |-> PathJoin(dir, Basename(link))]

(***************************************************************************)
(* The inputs and the environment                                          *)
(***************************************************************************)
MaxDays == 2

MaxPageLen == 2

MaxChunks == 2

MaxSpan == 4

\* A file name of the convention, from its fields.
CloudName(orbit, scene, y, mo, d, h, mi, s, build, version) ==
    <<"E", "C", "O", "S", "T", "R", "E", "S", "S", "_", "L", "2", "_",
      "C", "L", "O", "U", "D", "_">>
    \o Pad(orbit, 5) \o <<"_">> \o Pad(scene, 3) \o <<"_">>
    \o Pad(y, 4) \o Pad(mo, 2) \o Pad(d, 2) \o <<"T">>
    \o Pad(h, 2) \o Pad(mi, 2) \o Pad(s, 2) \o <<"_">>
    \o Pad(build, 4) \o <<"_">> \o Pad(version, 2) \o <<".", "h", "5">>

\* Two files of the archive: one of 2022-01-31 12:27:19, one of 2022-02-01 00:47:17.
NameA == CloudName(19850, 14, 2022, 1, 31, 12, 27, 19, 601, 1)

NameB == CloudName(19858, 16, 2022, 2, 1, 0, 47, 17, 601, 1)

\* The hrefs a listing page holds: data files, a metadata sidecar, and the None of
\* an anchor without href.
Hrefs == {Str(NameA), Str(NameB), Str(NameA \o XmlSuffix), PyNone}

RECURSIVE SeqsUpTo(_, _)
SeqsUpTo(S, n) ==
    IF n = 0 THEN {<<>>}
    ELSE SeqsUpTo(S, n - 1)
         \cup {Append(q, x) : q \in {r \in SeqsUpTo(S, n - 1) : Len(r) = n - 1}, x \in S}

Pages == SeqsUpTo(Hrefs, MaxPageLen)

RECURSIVE PlusDays(_, _)
PlusDays(a, k) == IF k = 0 THEN a ELSE PlusDays(AddDay(a), k - 1)

\* The ranges download() is called with, start <= end: within one day, and from
\* the first day to the last of MaxDays calendar days, at two times of day each.
Ranges ==
    {r \in {<<Datetime(2022, 1, 31, h1, 0, 0), PlusDays(Datetime(2022, 1, 31, h2, 0, 0), k)>> :
                h1 \in {10, 17}, h2 \in {10, 17}, k \in {0, MaxDays - 1}} :
        DtLE(r[1], r[2])}

\* Target boxes [min_lon, min_lat, max_lon, max_lat] in microdegrees.
Targets == {<<-120000000, 35000000, -118000000, 36000000>>,
            <<-95000000, 35000000, -90000000, 36000000>>}

\* The metadata documents of the two files: A covers the first target only, B both.
DocA == XmlDoc(-122778572, 38030651, -117125183, 32858040)

DocB == XmlDoc(-125000000, 40000000, -85000000, 30000000)

output_dir == <<"/", "o", "u", "t", "p", "u", "t", "/", "d", "i", "r", "/">>

\* The metadata cache before the call: each document absent, cached, or (A) cached
\* without its rectangle.
InitialFiles ==
    {a @@ b : a \in {<<>>, XmlPath(NameA \o XmlSuffix) :> DocA,
                     XmlPath(NameA \o XmlSuffix) :> XmlNoRect},
              b \in {<<>>, XmlPath(NameB \o XmlSuffix) :> DocB}}

\* What the archive serves: the body of a data file, and its metadata document.
ServerBody(link) == IF Basename(link) = NameA THEN <<1, 2, 3>> ELSE <<4, 5, 6>>

ServerXml(xml_url) == IF Basename(xml_url) = NameA \o XmlSuffix THEN DocA ELSE DocB

\* The ways a body arrives in at most n non-empty chunks.
RECURSIVE Chunkings(_, _)
Chunkings(body, n) ==
    IF body = <<>> THEN {<<>>}
    ELSE IF n = 0 THEN {}
    ELSE UNION {{<<SubSeq(body, 1, k)>> \o r : r \in Chunkings(SubSeq(body, k + 1, Len(body)), n - 1)} :
                    k \in 1..Len(body)}

\* What successive response.read() calls return: the chunks, then b''.
Reads(link) == {c \o << <<>> >> : c \in Chunkings(ServerBody(link), MaxChunks)}

(***************************************************************************)
(* The state                                                               *)
(***************************************************************************)
VARIABLES
    pc,             \* where the call is: idle, days, files, requests, reading, done, raised
    start_date,     \* download()'s arguments
    end_date,
    bbox,
    day_urls,       \* line 135
    day,            \* the index of day_url in day_urls
    file_urls,      \* line 138: the hrefs of the day's page
    pos,            \* the index of file_url in file_urls
    file_links,     \* line 136
    file_requests,  \* line 145
    req,            \* the index of request in file_requests
    files,          \* the file system: path -> content
    response,       \* what the open response's next reads return
    net,            \* network calls made: requests.get, install_opener, urlopen
    raised,         \* the exception that left the call, "" when none
    arg,            \* the argument and the result of a function applied on its own
    ret,
    overlaps_arg,   \* line 142: what the latest candidate's test passed to _overlaps_bbox
    run,            \* which call of download() this is: the first, or the one after it
    listing,        \* the pages the archive served to the first call, by day
    workers         \* concurrent _download calls: worker -> where it is and what it holds

vars == <<pc, start_date, end_date, bbox, day_urls, day, file_urls, pos, file_links,
          file_requests, req, files, response, net, raised, arg, ret, overlaps_arg, run,
          listing, workers>>

callVars == <<start_date, end_date, bbox, day_urls>>

probeVars == <<arg, ret>>

runVars == <<run, listing>>

NoNet == [get |-> 0, opener |-> 0, urlopen |-> 0]

\* Before any call: the object is constructed, the metadata directory exists.
Idle ==
    /\ start_date = PyNone
    /\ end_date = PyNone
    /\ bbox = <<>>
    /\ day_urls = <<>>
    /\ day = 1
    /\ file_urls = <<>>
    /\ pos = 1
    /\ file_links = <<>>
    /\ file_requests = <<>>
    /\ req = 1
    /\ response = <<>>
    /\ net = NoNet
    /\ raised = ""
    /\ overlaps_arg = PyNone
    /\ run = 1
    /\ listing = <<>>
    /\ workers = <<>>

Init ==
    /\ pc = "idle"
    /\ Idle
    /\ files \in InitialFiles
    /\ arg = PyNone
    /\ ret = PyNone

(***************************************************************************)
(* download(): lines 134-148                                               *)
(***************************************************************************)
\* An exception leaves download(): nothing catches it.
Throw(exc) ==
    /\ pc' = "raised"
    /\ raised' = exc

\* Lines 135-136.
Download ==
    /\ pc = "idle"
    /\ \E r \in Ranges, b \in Targets :
        /\ start_date' = r[1]
        /\ end_date' = r[2]
        /\ bbox' = b
        /\ day_urls' = _create_day_urls(r[1], r[2])
    /\ pc' = "days"
    /\ UNCHANGED <<day, file_urls, pos, file_links, file_requests, req, files, response,
                   net, raised, probeVars,
                   overlaps_arg, runVars, workers>>

\* Line 138, retrieve_links: the page is the archive's.
RetrieveLinks ==
    /\ pc = "days"
    /\ day <= Len(day_urls)
    /\ \E page \in Pages : file_urls' = page
    /\ pos' = 1
    /\ net' = [net EXCEPT !.get = @ + 1]
    /\ pc' = "files"
    /\ UNCHANGED <<callVars, day, file_links, file_requests, req, files, response, raised,
                   probeVars,
                   overlaps_arg, runVars, workers>>

\* Line 53: requests.get raises.
RetrieveLinksFails ==
    /\ pc = "days"
    /\ day <= Len(day_urls)
    /\ net' = [net EXCEPT !.get = @ + 1]
    /\ Throw("ConnectionError")
    /\ UNCHANGED <<callVars, day, file_urls, pos, file_links, file_requests, req, files,
                   response, probeVars,
                   overlaps_arg, runVars, workers>>

\* FilterLink appending a link only when file_links does not hold it yet.
FilterLinkDedup ==
    /\ pc = "files"
    /\ pos <= Len(file_urls)
    /\ LET file_url == file_urls[pos]
           link == UrlJoin(day_urls[day], file_url)
           sel == Selects(files, start_date, end_date, bbox, day_urls[day], file_url)
       IN IF sel.kind = "raise"
          THEN /\ Throw(sel.exc)
               /\ UNCHANGED <<pos, file_links>>
          ELSE /\ file_links' = IF sel.b /\ \A i \in 1..Len(file_links) : file_links[i] # link
                                THEN Append(file_links, link) ELSE file_links
               /\ pos' = pos + 1
               /\ UNCHANGED <<pc, raised>>
    /\ overlaps_arg' = SpatialCall(start_date, end_date, day_urls[day], file_urls[pos])
    /\ UNCHANGED <<callVars, day, file_urls, file_requests, req, files, response, net,
                   probeVars, runVars, workers>>

\* Lines 139-143 for one file_url.
FilterLink ==
    /\ pc = "files"
    /\ pos <= Len(file_urls)
    /\ LET file_url == file_urls[pos]
           link == UrlJoin(day_urls[day], file_url)
           sel == Selects(files, start_date, end_date, bbox, day_urls[day], file_url)
       IN IF sel.kind = "raise"
          THEN /\ Throw(sel.exc)
               /\ UNCHANGED <<pos, file_links>>
          ELSE /\ file_links' = IF sel.b THEN Append(file_links, link) ELSE file_links
               /\ pos' = pos + 1
               /\ UNCHANGED <<pc, raised>>
    /\ overlaps_arg' = SpatialCall(start_date, end_date, day_urls[day], file_urls[pos])
    /\ UNCHANGED <<callVars, day, file_urls, file_requests, req, files, response, net,
                   probeVars, runVars, workers>>

\* The inner loop ends: the next day_url.
NextDay ==
    /\ pc = "files"
    /\ pos > Len(file_urls)
    /\ day' = day + 1
    /\ pc' = "days"
    /\ UNCHANGED <<callVars, file_urls, pos, file_links, file_requests, req, files,
                   response, net, raised, probeVars,
                   overlaps_arg, runVars, workers>>

\* Line 145, once every day_url is done.
BuildRequests ==
    /\ pc = "days"
    /\ day > Len(day_urls)
    /\ file_requests' = [i \in 1..Len(file_links) |-> FileRequest(file_links[i], output_dir)]
    /\ req' = 1
    /\ pc' = "requests"
    /\ UNCHANGED <<callVars, day, file_urls, pos, file_links, files, response, net, raised,
                   probeVars,
                   overlaps_arg, runVars, workers>>

(***************************************************************************)
(* _download(request): lines 64-87, called at line 148                     *)
(***************************************************************************)
\* DownloadSkip with dest opened 'wb' ahead of the test of line 66: the file met
\* is emptied.
DownloadSkipTruncates ==
    /\ pc = "requests"
    /\ req <= Len(file_requests)
    /\ PathExists(files, file_requests[req].dest)
    /\ files' = [files EXCEPT ![file_requests[req].dest] = Bytes(<<>>)]
    /\ req' = req + 1
    /\ UNCHANGED <<callVars, pc, day, file_urls, pos, file_links, file_requests, response,
                   net, raised, probeVars, overlaps_arg, runVars, workers>>

\* Lines 66-68.
DownloadSkip ==
    /\ pc = "requests"
    /\ req <= Len(file_requests)
    /\ PathExists(files, file_requests[req].dest)
    /\ req' = req + 1
    /\ UNCHANGED <<callVars, pc, day, file_urls, pos, file_links, file_requests, files,
                   response, net, raised, probeVars,
                   overlaps_arg, runVars, workers>>

\* DownloadOpen without the test of line 66: dest is fetched whether it exists or not.
DownloadOpenAlways ==
    /\ pc = "requests"
    /\ req <= Len(file_requests)
    /\ net' = [net EXCEPT !.opener = @ + 1, !.urlopen = @ + 1]
    /\ \E r \in Reads(file_requests[req].link) : response' = r
    /\ files' = (file_requests[req].dest :> Bytes(<<>>)) @@ files
    /\ pc' = "reading"
    /\ UNCHANGED <<callVars, day, file_urls, pos, file_links, file_requests, req, raised,
                   probeVars,
                   overlaps_arg, runVars, workers>>

\* Lines 70-81: the opener is installed, urlopen answers, dest is opened 'wb'.
DownloadOpen ==
    /\ pc = "requests"
    /\ req <= Len(file_requests)
    /\ ~PathExists(files, file_requests[req].dest)
    /\ net' = [net EXCEPT !.opener = @ + 1, !.urlopen = @ + 1]
    /\ \E r \in Reads(file_requests[req].link) : response' = r
    /\ files' = (file_requests[req].dest :> Bytes(<<>>)) @@ files
    /\ pc' = "reading"
    /\ UNCHANGED <<callVars, day, file_urls, pos, file_links, file_requests, req, raised,
                   probeVars,
                   overlaps_arg, runVars, workers>>

\* UrlopenFails with the exception caught around the task: the loop goes on.
UrlopenFailsContinues ==
    /\ pc = "requests"
    /\ req <= Len(file_requests)
    /\ ~PathExists(files, file_requests[req].dest)
    /\ net' = [net EXCEPT !.opener = @ + 1, !.urlopen = @ + 1]
    /\ req' = req + 1
    /\ UNCHANGED <<callVars, pc, day, file_urls, pos, file_links, file_requests, files,
                   response, raised, probeVars,
                   overlaps_arg, runVars, workers>>

\* Line 79: urlopen raises.
UrlopenFails ==
    /\ pc = "requests"
    /\ req <= Len(file_requests)
    /\ ~PathExists(files, file_requests[req].dest)
    /\ net' = [net EXCEPT !.opener = @ + 1, !.urlopen = @ + 1]
    /\ Throw("URLError")
    /\ UNCHANGED <<callVars, day, file_urls, pos, file_links, file_requests, req, files,
                   response, probeVars,
                   overlaps_arg, runVars, workers>>

\* A chunk shorter than two bytes taken for the end of the body.
TruthyIfFull(chunk) == Len(chunk) > 1

\* "if chunk" of line 84.
Truthy(chunk) == Len(chunk) > 0

\* Lines 83-87: one pass of the read loop.
ReadChunk ==
    /\ pc = "reading"
    /\ LET chunk == Head(response)
           dest == file_requests[req].dest
       IN IF Truthy(chunk)
          THEN /\ files' = [files EXCEPT ![dest] = Bytes(@.data \o chunk)]
               /\ response' = Tail(response)
               /\ UNCHANGED <<pc, req>>
          ELSE /\ response' = <<>>
               /\ req' = req + 1
               /\ pc' = "requests"
               /\ UNCHANGED files
    /\ UNCHANGED <<callVars, day, file_urls, pos, file_links, file_requests, net, raised,
                   probeVars,
                   overlaps_arg, runVars, workers>>

\* Line 83: response.read() raises; the with block closes dest and the exception
\* goes on.
ReadFails ==
    /\ pc = "reading"
    /\ response' = <<>>
    /\ Throw("IncompleteRead")
    /\ UNCHANGED <<callVars, day, file_urls, pos, file_links, file_requests, req, files,
                   net, probeVars,
                   overlaps_arg, runVars, workers>>

\* The loop of line 147 ends and download() returns.
Return ==
    /\ pc = "requests"
    /\ req > Len(file_requests)
    /\ pc' = "done"
    /\ UNCHANGED <<callVars, day, file_urls, pos, file_links, file_requests, req, files,
                   response, net, raised, probeVars,
                   overlaps_arg, runVars, workers>>

Next ==
    \/ Download
    \/ RetrieveLinks
    \/ RetrieveLinksFails
    \/ FilterLink
    \/ NextDay
    \/ BuildRequests
    \/ DownloadSkip
    \/ DownloadOpen
    \/ UrlopenFails
    \/ ReadChunk
    \/ ReadFails
    \/ Return

Spec == Init /\ [][Next]_vars

(***************************************************************************)
(* download() called a second time, with the arguments of the first call   *)
(***************************************************************************)
\* The ranges of the first call: one day, and two days.
RerunRanges ==
    {<<Datetime(2022, 1, 31, 10, 0, 0), Datetime(2022, 1, 31, 17, 0, 0)>>,
     <<Datetime(2022, 1, 31, 10, 0, 0), Datetime(2022, 2, 1, 17, 0, 0)>>}

\* Lines 135-136 of the first call.
DownloadFirst ==
    /\ pc = "idle"
    /\ \E r \in RerunRanges, b \in Targets :
        /\ start_date' = r[1]
        /\ end_date' = r[2]
        /\ bbox' = b
        /\ day_urls' = _create_day_urls(r[1], r[2])
    /\ pc' = "days"
    /\ UNCHANGED <<day, file_urls, pos, file_links, file_requests, req, files, response,
                   net, raised, probeVars, overlaps_arg, runVars, workers>>

\* Line 138 in the first call: the page the archive serves is kept, by day.
RetrieveLinksFirst ==
    /\ pc = "days"
    /\ run = 1
    /\ day <= Len(day_urls)
    /\ \E page \in Pages :
        /\ file_urls' = page
        /\ listing' = Append(listing, page)
    /\ pos' = 1
    /\ net' = [net EXCEPT !.get = @ + 1]
    /\ pc' = "files"
    /\ UNCHANGED <<callVars, day, file_links, file_requests, req, files, response, raised,
                   probeVars, overlaps_arg, run, workers>>

\* Line 138 in the second call: the archive serves the page it served before.
RetrieveLinksAgain ==
    /\ pc = "days"
    /\ run = 2
    /\ day <= Len(day_urls)
    /\ file_urls' = listing[day]
    /\ pos' = 1
    /\ net' = [net EXCEPT !.get = @ + 1]
    /\ pc' = "files"
    /\ UNCHANGED <<callVars, day, file_links, file_requests, req, files, response, raised,
                   probeVars, overlaps_arg, runVars, workers>>

\* download() has returned and is called again with the same arguments: lines
\* 135-136 give the same day_urls and an empty file_links; the files stay.
DownloadAgain ==
    /\ pc = "done"
    /\ run = 1
    /\ run' = 2
    /\ day' = 1
    /\ file_urls' = <<>>
    /\ pos' = 1
    /\ file_links' = <<>>
    /\ file_requests' = <<>>
    /\ req' = 1
    /\ pc' = "days"
    /\ UNCHANGED <<callVars, files, response, net, raised, probeVars, overlaps_arg,
                   listing, workers>>

NextRerun ==
    \/ DownloadFirst
    \/ RetrieveLinksFirst
    \/ RetrieveLinksAgain
    \/ RetrieveLinksFails
    \/ FilterLink
    \/ NextDay
    \/ BuildRequests
    \/ DownloadSkip
    \/ DownloadOpen
    \/ UrlopenFails
    \/ ReadChunk
    \/ ReadFails
    \/ Return
    \/ DownloadAgain

SpecRerun == Init /\ [][NextRerun]_vars

(***************************************************************************)
(* _parse_datetime_from_file_name applied on its own                       *)
(***************************************************************************)
\* Names of the convention over calendar fields in and out of range, and the
\* names of test_retrieve_links: another product, a sidecar, a thumbnail, a name
\* under a directory, a name ending in a newline, the empty text.
ParseInputs ==
    {Str(CloudName(19843, 18, y, mo, d, h, mi, s, 601, 1)) :
        y \in {0, 2022, 2024}, mo \in {0, 1, 2, 12, 13}, d \in {0, 1, 28, 29, 30, 31, 32},
        h \in {23, 24}, mi \in {59, 60}, s \in {9, 60}}
    \cup {Str(NameA \o XmlSuffix),
          Str(SubSeq(NameA, 1, Len(NameA) - 3) \o <<".", "1", ".", "j", "p", "g">>),
          Str(<<"E", "C", "O", "S", "T", "R", "E", "S", "S", "_", "L", "4", "_", "W", "U", "E", "_">>
              \o SubSeq(NameA, 20, Len(NameA))),
          Str(<<"s", "u", "b", "/">> \o NameA),
          Str(NameA \o <<"\n">>),
          Str(Tail(NameA)),
          Str(<<>>)}

InitParse ==
    /\ pc = "parse"
    /\ Idle
    /\ files = <<>>
    /\ arg \in ParseInputs
    /\ ret = PyNone

ParseFileName ==
    /\ pc = "parse"
    /\ ret' = _parse_datetime_from_file_name(arg)
    /\ pc' = "parsed"
    /\ UNCHANGED <<callVars, day, file_urls, pos, file_links, file_requests, req, files,
                   response, net, raised, arg,
                   overlaps_arg, runVars, workers>>

NextParse == ParseFileName

SpecParse == InitParse /\ [][NextParse]_vars

(***************************************************************************)
(* _create_day_urls applied on its own                                     *)
(***************************************************************************)
\* start <= end, the end up to MaxSpan calendar days after the start: across a
\* month's end, a leap day and a year's end, at midnight and at times of day.
DayRanges ==
    {r \in {<<Datetime(s[1], s[2], s[3], h1, 0, 0),
              PlusDays(Datetime(s[1], s[2], s[3], h2, 0, 0), k)>> :
                s \in {<<2022, 1, 29>>, <<2024, 2, 27>>, <<2022, 12, 30>>},
                h1 \in {0, 10, 17}, h2 \in {0, 10, 17}, k \in 0..MaxSpan} :
        DtLE(r[1], r[2])}

InitDays ==
    /\ pc = "range"
    /\ Idle
    /\ files = <<>>
    /\ \E r \in DayRanges : arg = [kind |-> "range", start |-> r[1], end |-> r[2]]
    /\ ret = PyNone

CreateDayUrls ==
    /\ pc = "range"
    /\ ret' = [kind |-> "list", urls |-> _create_day_urls(arg.start, arg.end)]
    /\ pc' = "listed"
    /\ UNCHANGED <<callVars, day, file_urls, pos, file_links, file_requests, req, files,
                   response, net, raised, arg,
                   overlaps_arg, runVars, workers>>

NextDays == CreateDayUrls

SpecDays == InitDays /\ [][NextDays]_vars

(***************************************************************************)
(* _overlaps_bbox applied on its own                                       *)
(***************************************************************************)
\* Target boxes [min_lon, min_lat, max_lon, max_lat] over the coordinates of the
\* tests' boxes, in either order on each axis: well formed and inverted, each with
\* four distinct corners.
OverlapTargets ==
    {b \in {<<x1, y1, x2, y2>> : x1 \in {-120000000, -118000000, -95000000, -90000000},
                                 x2 \in {-120000000, -118000000, -95000000, -90000000},
                                 y1 \in {35000000, 36000000}, y2 \in {35000000, 36000000}} :
        b[1] # b[3] /\ b[2] # b[4]}

\* The metadata URLs _overlaps_bbox is called with.
XmlUrls ==
    {_create_day_url(Datetime(2022, 1, 31, 0, 0, 0)) \o NameA \o XmlSuffix,
     _create_day_url(Datetime(2022, 2, 1, 0, 0, 0)) \o NameB \o XmlSuffix}

InitOverlap ==
    /\ pc = "overlap"
    /\ Idle
    /\ files \in InitialFiles
    /\ \E b \in OverlapTargets, u \in XmlUrls :
        arg = [kind |-> "overlap", target_bbox |-> b, xml_url |-> u]
    /\ ret = PyNone

OverlapsBbox ==
    /\ pc = "overlap"
    /\ ret' = _overlaps_bbox(files, arg.target_bbox, arg.xml_url)
    /\ pc' = "overlapped"
    /\ UNCHANGED <<callVars, day, file_urls, pos, file_links, file_requests, req, files,
                   response, net, raised, arg,
                   overlaps_arg, runVars, workers>>

NextOverlap == OverlapsBbox

SpecOverlap == InitOverlap /\ [][NextOverlap]_vars

(***************************************************************************)
(* The condition of line 142 applied on its own                            *)
(***************************************************************************)
\* The ways a listing page of day_url can write the href of the file named n: the
\* bare name, a relative path, a rooted path and an absolute URL.
HrefForms(day_url, n) ==
    {Str(n),
     Str(<<"d", "a", "t", "a", "/">> \o n),
     Str(SubSeq(day_url, Len(Origin(day_url)) + 1, Len(day_url)) \o n),
     Str(day_url \o n)}

InitSelect ==
    /\ pc = "select"
    /\ \E r \in Ranges, b \in Targets :
        /\ start_date = r[1]
        /\ end_date = r[2]
        /\ bbox = b
        /\ day_urls = _create_day_urls(r[1], r[2])
    /\ day \in 1..Len(day_urls)
    /\ \E n \in {NameA, NameB} : arg \in HrefForms(day_urls[day], n)
    /\ file_urls = <<arg>>
    /\ pos = 1
    /\ file_links = <<>>
    /\ file_requests = <<>>
    /\ req = 1
    /\ files \in InitialFiles
    /\ response = <<>>
    /\ net = NoNet
    /\ raised = ""
    /\ ret = PyNone
    /\ overlaps_arg = PyNone
    /\ run = 1
    /\ listing = <<>>
    /\ workers = <<>>

SelectsLink ==
    /\ pc = "select"
    /\ ret' = Selects(files, start_date, end_date, bbox, day_urls[day], file_urls[pos])
    /\ pc' = "selected"
    /\ UNCHANGED <<callVars, day, file_urls, pos, file_links, file_requests, req, files,
                   response, net, raised, arg, overlaps_arg, runVars, workers>>

NextSelect == SelectsLink

SpecSelect == InitSelect /\ [][NextSelect]_vars

(***************************************************************************)
(* Two _download calls running concurrently: lines 64-87, a step per        *)
(* statement that touches the file system or the network                   *)
(***************************************************************************)
Workers == {1, 2}

\* The tasks the two calls are given: of the same file or of two files.
WorkerQueries ==
    {FileRequest(_create_day_url(Datetime(2022, 1, 31, 0, 0, 0)) \o NameA, output_dir),
     FileRequest(_create_day_url(Datetime(2022, 2, 1, 0, 0, 0)) \o NameB, output_dir)}

\* The output directory before the calls: empty, or holding the first file.
WorkerFiles ==
    {<<>>, PathJoin(output_dir, NameA) :> Bytes(ServerBody(NameA))}

\* fd.write(chunk) at the descriptor's own position: the bytes there are replaced,
\* the file grows when the write ends past its end, and a position past the end
\* (the file was emptied since) leaves zero bytes in between.
WriteAt(data, offset, chunk) ==
    IF offset > Len(data)
    THEN data \o [i \in 1..(offset - Len(data)) |-> 0] \o chunk
    ELSE SubSeq(data, 1, offset) \o chunk \o SubSeq(data, offset + Len(chunk) + 1, Len(data))

InitWorkers ==
    /\ pc = "workers"
    /\ start_date = PyNone
    /\ end_date = PyNone
    /\ bbox = <<>>
    /\ day_urls = <<>>
    /\ day = 1
    /\ file_urls = <<>>
    /\ pos = 1
    /\ file_links = <<>>
    /\ file_requests = <<>>
    /\ req = 1
    /\ response = <<>>
    /\ net = NoNet
    /\ raised = ""
    /\ overlaps_arg = PyNone
    /\ run = 1
    /\ listing = <<>>
    /\ arg = PyNone
    /\ ret = PyNone
    /\ files \in WorkerFiles
    /\ workers \in [Workers -> {[pc |-> "exists", query |-> q, response |-> <<>>,
                                 offset |-> 0, opened |-> FALSE] : q \in WorkerQueries}]

workerFrame == <<pc, callVars, day, file_urls, pos, file_links, file_requests, req, response,
                 raised, probeVars, overlaps_arg, runVars>>

\* Lines 66-68: dest exists, the call returns.
WorkerSkip(w) ==
    /\ workers[w].pc = "exists"
    /\ PathExists(files, workers[w].query.dest)
    /\ workers' = [workers EXCEPT ![w].pc = "returned"]
    /\ UNCHANGED <<workerFrame, files, net>>

\* Line 66: dest does not exist, the call goes on to lines 70-78.
WorkerGoesOn(w) ==
    /\ workers[w].pc = "exists"
    /\ ~PathExists(files, workers[w].query.dest)
    /\ workers' = [workers EXCEPT ![w].pc = "urlopen"]
    /\ UNCHANGED <<workerFrame, files, net>>

\* Lines 77-80: the opener is installed and urlopen answers.
WorkerUrlopen(w) ==
    /\ workers[w].pc = "urlopen"
    /\ net' = [net EXCEPT !.opener = @ + 1, !.urlopen = @ + 1]
    /\ \E r \in Reads(workers[w].query.link) :
        workers' = [workers EXCEPT ![w].pc = "open", ![w].response = r]
    /\ UNCHANGED <<workerFrame, files>>

\* Line 79: urlopen raises.
WorkerUrlopenFails(w) ==
    /\ workers[w].pc = "urlopen"
    /\ net' = [net EXCEPT !.opener = @ + 1, !.urlopen = @ + 1]
    /\ workers' = [workers EXCEPT ![w].pc = "raised"]
    /\ UNCHANGED <<workerFrame, files>>

\* Line 81: open(dest, 'wb') creates the file, or empties the one that is there.
WorkerOpen(w) ==
    /\ workers[w].pc = "open"
    /\ files' = (workers[w].query.dest :> Bytes(<<>>)) @@ files
    /\ workers' = [workers EXCEPT ![w].pc = "read", ![w].offset = 0, ![w].opened = TRUE]
    /\ UNCHANGED <<workerFrame, net>>

\* Lines 83-87: one pass of the read loop, the chunk written through.
WorkerRead(w) ==
    /\ workers[w].pc = "read"
    /\ LET chunk == Head(workers[w].response)
           dest == workers[w].query.dest
       IN IF Truthy(chunk)
          THEN /\ files' = [files EXCEPT
                               ![dest] = Bytes(WriteAt(@.data, workers[w].offset, chunk))]
               /\ workers' = [workers EXCEPT ![w].response = Tail(@),
                                             ![w].offset = @ + Len(chunk)]
          ELSE /\ workers' = [workers EXCEPT ![w].pc = "returned", ![w].response = <<>>]
               /\ UNCHANGED files
    /\ UNCHANGED <<workerFrame, net>>

\* Line 83: response.read() raises.
WorkerReadFails(w) ==
    /\ workers[w].pc = "read"
    /\ workers' = [workers EXCEPT ![w].pc = "raised", ![w].response = <<>>]
    /\ UNCHANGED <<workerFrame, files, net>>

NextWorkers ==
    \E w \in Workers :
        \/ WorkerSkip(w)
        \/ WorkerGoesOn(w)
        \/ WorkerUrlopen(w)
        \/ WorkerUrlopenFails(w)
        \/ WorkerOpen(w)
        \/ WorkerRead(w)
        \/ WorkerReadFails(w)

SpecWorkers == InitWorkers /\ [][NextWorkers]_vars

(***************************************************************************)
(* What the claims speak of                                                *)
(***************************************************************************)
\* The naming convention ECOSTRESS_L2_CLOUD_NNNNN_NNN_YYYYMMDDTHHMMSS_NNNN_NN.h5,
\* "#" standing for one digit.
Convention ==
    <<"E", "C", "O", "S", "T", "R", "E", "S", "S", "_", "L", "2", "_", "C",
      "L", "O", "U", "D", "_", "#", "#", "#", "#", "#", "_", "#", "#", "#",
      "_", "#", "#", "#", "#", "#", "#", "#", "#", "T", "#", "#", "#", "#",
      "#", "#", "_", "#", "#", "#", "#", "_", "#", "#", ".", "h", "5">>

Conforms(v) ==
    /\ v.kind = "str"
    /\ Len(v.s) = Len(Convention)
    /\ \A i \in 1..Len(Convention) :
        IF Convention[i] = "#" THEN IsDigit(v.s[i]) ELSE v.s[i] = Convention[i]

\* The date and time a conforming name encodes, field by field.
Encoded(v) ==
    <<ToInt(SubSeq(v.s, 30, 33)), ToInt(SubSeq(v.s, 34, 35)), ToInt(SubSeq(v.s, 36, 37)),
      ToInt(SubSeq(v.s, 39, 40)), ToInt(SubSeq(v.s, 41, 42)), ToInt(SubSeq(v.s, 43, 44))>>

Midnight(a) == Datetime(a.dt[1], a.dt[2], a.dt[3], 0, 0, 0)

\* The calendar days from a's through b's, both at midnight.
RECURSIVE CalendarDays(_, _)
CalendarDays(a, b) ==
    IF DtLE(a, b) THEN <<a>> \o CalendarDays(AddDay(a), b) ELSE <<>>

DayUrlOf(a) == _BASE_CLOUD_URL \o Strftime(a) \o <<"/">>

\* C2: for every start <= end, _create_day_urls returns exactly one listing URL
\* per calendar day from start.date() through end.date(), both included, in
\* calendar order, whatever the times of day of start and end.
C2_OneUrlPerCalendarDay ==
    pc = "listed" =>
        LET days == CalendarDays(Midnight(arg.start), Midnight(arg.end))
        IN ret.urls = [i \in 1..Len(days) |-> DayUrlOf(days[i])]

\* C9: _parse_datetime_from_file_name never raises on a text: a name of the
\* convention gives the timestamp with the fields as the name encodes them, any
\* other text gives None.
C9_ParseTotal ==
    (pc = "parsed" /\ arg.kind = "str") =>
        IF Conforms(arg) THEN ret = [kind |-> "datetime", dt |-> Encoded(arg)]
        ELSE ret = PyNone

\* The candidate line 139 is at.
AtCandidate == pc = "files" /\ pos <= Len(file_urls)

CurrentLink == UrlJoin(day_urls[day], file_urls[pos])

XmlUrlOf(link) == link \o XmlSuffix

\* The name's timestamp parses and lies in [start, end], both bounds included.
TemporallyEligible(v) ==
    /\ Conforms(v)
    /\ ValidDatetime(Encoded(v)[1], Encoded(v)[2], Encoded(v)[3],
                     Encoded(v)[4], Encoded(v)[5], Encoded(v)[6])
    /\ TupleLE(start_date.dt, Encoded(v))
    /\ TupleLE(Encoded(v), end_date.dt)

\* The file's metadata document: the cached copy, or the archive's when none is cached.
MetadataDoc(xml_url) ==
    IF XmlPath(xml_url) \in DOMAIN files THEN files[XmlPath(xml_url)] ELSE ServerXml(xml_url)

\* The document's rectangle and the target box share a point.
RectOverlaps(doc, box) ==
    /\ doc.kind = "xml"
    /\ doc.West <= box[3] /\ box[1] <= doc.East
    /\ doc.South <= box[4] /\ box[2] <= doc.North

TaskOf(link) == [link |-> link, dest |-> output_dir \o Basename(link)]

\* C1: for every href of every fetched page, the task (link, output_dir/basename)
\* is produced if and only if the name's timestamp parses, lies in [start, end]
\* (inclusive, exact) and the file's metadata rectangle overlaps bbox.
C1_TaskIffEligible ==
    [][/\ AtCandidate =>
            ((file_links' = Append(file_links, CurrentLink))
                <=> (/\ TemporallyEligible(file_urls[pos])
                     /\ RectOverlaps(MetadataDoc(XmlUrlOf(CurrentLink)), bbox)))
       /\ (pc = "days" /\ pc' = "requests") =>
            file_requests' = [i \in 1..Len(file_links) |-> TaskOf(file_links[i])]]_vars

\* The call of line 109 is reached: the candidate passed the temporal filter.
ReachesMetadata == AtCandidate /\ TemporallyEligible(file_urls[pos])

\* C3: _parse_bbox_from_xml fetches the document at most once per basename: with
\* no cache file it fetches the document, writes it to XML_DIR/basename and
\* returns the rectangle; with a cache file it makes no fetch and parses the copy.
C3_FetchedOnceThenCached ==
    [][ReachesMetadata =>
        LET xml_url == XmlUrlOf(CurrentLink)
            path == _XML_DIR \o <<"/">> \o Basename(xml_url)
        IN IF path \notin DOMAIN files
           THEN /\ pc' # "raised"
                /\ path \in DOMAIN files'
                /\ files'[path] = ServerXml(xml_url)
           ELSE /\ files' = files
                /\ net' = net]_vars

\* The task line 148 is at.
AtTask == pc = "requests" /\ req <= Len(file_requests)

\* C4: _download((remote, local)) with a file at local makes no network request
\* (no opener, no urlopen), returns without error and leaves the files as they are.
C4_ExistingDestNoNetwork ==
    [][(AtTask /\ file_requests[req].dest \in DOMAIN files) =>
        /\ net' = net
        /\ files' = files
        /\ raised' = ""
        /\ pc' = "requests"
        /\ req' = req + 1]_vars

\* A task was passed over: more tasks are done than urlopen calls were made.
C4_Witness == pc = "done" /\ req - 1 > net.urlopen /\ net.urlopen > 0

RECURSIVE Flatten(_)
Flatten(chunks) == IF chunks = <<>> THEN <<>> ELSE Head(chunks) \o Flatten(Tail(chunks))

\* C5: the read loop ends at the first empty read, and the file then holds the
\* non-empty chunks in read order, whatever their sizes: while reading, what is
\* written followed by what is still to be read is the whole body, the empty read
\* is still ahead, and a finished task's file is the body.
C5_FileIsConcatenation ==
    /\ pc = "reading" =>
        /\ response # <<>>
        /\ response[Len(response)] = <<>>
        /\ files[file_requests[req].dest].data \o Flatten(response)
             = ServerBody(file_requests[req].link)
    /\ pc \in {"requests", "done"} =>
        \A i \in 1..Len(file_requests) :
            i < req => files[file_requests[i].dest].data = ServerBody(file_requests[i].link)

\* One chunk is written, a second chunk and the empty read are ahead.
C5_Witness ==
    /\ pc = "reading"
    /\ Len(response) = 2
    /\ files[file_requests[req].dest].data # <<>>

OutputFiles == {p \in DOMAIN files : DirOf(p) = output_dir}

\* C6: when the metadata of a temporally eligible candidate cannot be retrieved
\* or parsed, the error leaves download() and the run ends there: no step
\* follows, and no data file download was started, whatever was accepted before.
C6_MetadataFailureAborts ==
    [][/\ pc # "raised"
       /\ (ReachesMetadata
            /\ _parse_bbox_from_xml(files, XmlUrlOf(CurrentLink)).kind = "raise") =>
            /\ pc' = "raised"
            /\ raised' = _parse_bbox_from_xml(files, XmlUrlOf(CurrentLink)).exc
            /\ net.urlopen = 0 /\ net.opener = 0
            /\ OutputFiles = {}
            /\ UNCHANGED <<files, net, file_links, file_requests, req>>]_vars

\* The metadata of a candidate failed after another candidate was accepted.
C6_Witness ==
    /\ pc = "raised"
    /\ raised \in {"TypeError", "AttributeError"}
    /\ pos <= Len(file_urls)
    /\ TemporallyEligible(file_urls[pos])
    /\ file_links # <<>>
    /\ OutputFiles = {}

FetchErrors == {"URLError", "IncompleteRead"}

\* C7 as stated: a failure of one task's fetch does not prevent any other task
\* from being executed; when the run has ended on a fetch error, no task to
\* another path is left after the failed one.
C7_TasksIndependent ==
    (pc = "raised" /\ raised \in FetchErrors) =>
        \A j \in 1..Len(file_requests) :
            j > req => file_requests[j].dest = file_requests[req].dest

\* C7 as amended: a failure of a task's fetch (urlopen raising, or a read raising
\* before the empty read) leaves download() at that task, and the run ends there:
\* no step follows, so the tasks after it are not executed.
C7_FetchFailureAborts ==
    [][/\ pc # "raised"
       /\ (AtTask /\ net'.urlopen # net.urlopen /\ files' = files) =>
            (pc' = "raised" /\ raised' \in FetchErrors /\ req' = req)
       /\ (pc = "reading" /\ Head(response) # <<>> /\ files' = files) =>
            (pc' = "raised" /\ raised' \in FetchErrors /\ req' = req)]_vars

\* The first task's urlopen failed and the next task, to another path, never ran.
C7_Witness ==
    /\ pc = "raised"
    /\ raised = "URLError"
    /\ req < Len(file_requests)
    /\ file_requests[req + 1].dest \notin DOMAIN files

\* C8: an href that is no data file of the convention (None, a sidecar, a
\* thumbnail) is passed over: no task, no error, the run goes on.
C8_NonDataHrefPassedOver ==
    [][(AtCandidate /\ ~Conforms(file_urls[pos])) =>
        /\ pc' = "files"
        /\ pos' = pos + 1
        /\ file_links' = file_links
        /\ raised' = ""]_vars

\* The link lies under the day URL.
IsUnder(link, day_url) ==
    Len(link) >= Len(day_url) /\ SubSeq(link, 1, Len(day_url)) = day_url

\* The links of file_links under a day URL, in their order.
LinksUnder(day_url) == SelectSeq(file_links, LAMBDA l : IsUnder(l, day_url))

\* The hrefs of a page prefix that pass both filters, as links, one per occurrence.
RECURSIVE SelectedOf(_, _)
SelectedOf(hrefs, day_url) ==
    IF hrefs = <<>> THEN <<>>
    ELSE LET h == hrefs[Len(hrefs)]
             link == day_url \o h.s
         IN SelectedOf(SubSeq(hrefs, 1, Len(hrefs) - 1), day_url)
            \o (IF TemporallyEligible(h) /\ RectOverlaps(MetadataDoc(XmlUrlOf(link)), bbox)
                THEN <<link>> ELSE <<>>)

DayIndex(link) == CHOOSE k \in 1..Len(day_urls) : IsUnder(link, day_urls[k])

\* C10: tasks are in discovery order (day order, then listing order) with one task
\* per occurrence, and run in that order: the links are ordered by day; within the
\* current day they are the selected hrefs read so far, in page order and with
\* repetitions; file_requests follows file_links; every task before the current
\* one has run, and a later task's file exists only if an earlier task wrote it.
C10_DiscoveryOrderNoDedup ==
    /\ \A i \in 1..(Len(file_links) - 1) :
        DayIndex(file_links[i]) <= DayIndex(file_links[i + 1])
    /\ pc = "files" =>
        LinksUnder(day_urls[day])
            = SelectedOf(SubSeq(file_urls, 1, pos - 1), day_urls[day])
    /\ (pc \in {"requests", "reading", "done"} \/ (pc = "raised" /\ raised \in FetchErrors)) =>
        /\ file_requests = [i \in 1..Len(file_links) |-> TaskOf(file_links[i])]
        /\ \A i \in 1..Len(file_requests) :
            /\ i < req => file_requests[i].dest \in DOMAIN files
            /\ (i > req /\ file_requests[i].dest \in DOMAIN files) =>
                  \E k \in 1..req : file_requests[k].dest = file_requests[i].dest

\* The same name was selected on two day pages and gave two tasks, in day order.
C10_Witness ==
    /\ pc = "done"
    /\ \E i, j \in 1..Len(file_requests) :
        /\ i < j
        /\ Basename(file_requests[i].link) = Basename(file_requests[j].link)
        /\ DayIndex(file_requests[i].link) < DayIndex(file_requests[j].link)

\* The box is inverted on an axis: min_lon > max_lon or min_lat > max_lat.
Inverted(box) == box[1] > box[3] \/ box[2] > box[4]

\* C11: a target bbox that is inverted yields no matches: _overlaps_bbox returns
\* false for every file rectangle.
C11_InvertedBoxNoMatch ==
    (pc = "overlapped" /\ Inverted(arg.target_bbox) /\ ret.kind = "bool") =>
        ret = Bool(FALSE)

\* C12: after a run of download() that completed, a second run with the same
\* arguments and the same listing pages fetches no metadata document and no data
\* file, raises nothing in its filter and its tasks, and leaves every file of the
\* metadata cache and of the output directory as it was.
C12_SecondRunFetchesNothing ==
    [][run = 2 =>
        /\ files' = files
        /\ net'.urlopen = net.urlopen
        /\ net'.opener = net.opener
        /\ pc' = "raised" => raised' = "ConnectionError"]_vars

\* The first run fetched two files; the second run went through its two tasks
\* and returned.
C12_Witness ==
    /\ run = 2
    /\ pc = "done"
    /\ net.urlopen >= 2
    /\ \E i, j \in 1..Len(file_requests) : file_requests[i].dest # file_requests[j].dest

\* C13: files are only ever created: a step never removes a file; a file is
\* opened for writing only where none exists; and the content of an existing
\* file changes only while the _download that created it is still writing it.
C13_OnlyEverCreated ==
    [][/\ \A p \in DOMAIN files :
            /\ p \in DOMAIN files'
            /\ files'[p] # files[p] =>
                (pc = "reading" /\ p = file_requests[req].dest /\ file_requests' = file_requests
                    /\ req' = req)
       /\ (pc # "reading" /\ pc' = "reading") =>
            /\ file_requests[req].dest \notin DOMAIN files
            /\ DOMAIN files' = DOMAIN files \cup {file_requests[req].dest}]_vars

\* In the second call a task met the file the first call wrote and went past it.
C13_Witness ==
    /\ run = 2
    /\ pc = "requests"
    /\ req = 2
    /\ files[file_requests[1].dest] = Bytes(ServerBody(file_requests[1].link))

\* C14: spatial evaluation is performed only for candidates that survive the
\* temporal filter: the step of a candidate calls _overlaps_bbox, once and with
\* link + ".xml", exactly when the href's timestamp parses and lies in
\* [start, end]; for any other href the step makes no call.
C14_SpatialOnlyAfterTemporal ==
    [][AtCandidate =>
        overlaps_arg' = IF TemporallyEligible(file_urls[pos])
                        THEN Str(XmlUrlOf(CurrentLink))
                        ELSE PyNone]_vars

\* A dated candidate outside the range was passed over without a call, after a
\* candidate inside the range was evaluated and accepted.
C14_Witness ==
    /\ pc = "files"
    /\ pos > 1
    /\ Conforms(file_urls[pos - 1])
    /\ ~TemporallyEligible(file_urls[pos - 1])
    /\ overlaps_arg = PyNone
    /\ file_links # <<>>

\* C15: the timestamp of a candidate is parsed from its resolved absolute link, so
\* a bare filename, a relative path and an absolute URL ending in that filename are
\* treated the same: with the file's metadata cached, the candidate is selected
\* exactly when the name its link ends in is dated within [start, end] and the
\* file's rectangle overlaps bbox.
C15_HrefFormIrrelevant ==
    LET link == UrlJoin(day_urls[day], arg)
        doc == MetadataDoc(XmlUrlOf(link))
    IN (pc = "selected" /\ XmlPath(XmlUrlOf(link)) \in DOMAIN files /\ doc.kind = "xml") =>
        ret = Bool(TemporallyEligible(Str(Basename(link))) /\ RectOverlaps(doc, bbox))

\* C16: downloads are resumable: whenever no _download is under way, a file at a
\* task's local path holds the complete response body; a _download that failed
\* while reading has left no file at its local path.
C16_ExistingFileIsComplete ==
    pc # "reading" =>
        \A i \in 1..Len(file_requests) :
            file_requests[i].dest \in DOMAIN files =>
                files[file_requests[i].dest] = Bytes(ServerBody(file_requests[i].link))

\* C17: for every interleaving of two concurrent _download calls, at most one of
\* them opens a given local path for writing.
C17_OneWriterPerPath ==
    \A v, w \in Workers :
        (v # w /\ workers[v].query.dest = workers[w].query.dest) =>
            ~(workers[v].opened /\ workers[w].opened)

====
